---- MODULE Spec2Model ----
(***************************************************************************)
(* LoadData (cellprofiler/modules/loaddata.py): a CSV file is parsed once  *)
(* by prepare_run, its rows are bound to the units (image sets) of the     *)
(* pipeline, and its columns are declared by get_measurement_columns.      *)
(*                                                                         *)
(* Text is modelled structurally.  A name (header field, feature name,     *)
(* image name) is a sequence of tokens, "_" being a token of its own, so   *)
(* "Image_FileName_X" is <<"Image","_","FileName","_","X">>; startswith    *)
(* and slicing act on that sequence.  A cell is a sequence of characters.  *)
(***************************************************************************)
EXTENDS Integers, Sequences, FiniteSets, TLC

VARIABLES
    csv_file,            \* the file at csv_path: [exists, ctime, lines]
    wants_rows,          \* setting "Process just a range of rows?"
    row_range,           \* setting "Rows to process": [min, max]
    wants_images,        \* setting "Load images based on this data?"
    in_batch_mode,       \* pipeline.in_batch_mode()
    associating_by_key,  \* image_set_list.associating_by_key: "None", "True", "False"
    image_sets,          \* the calls image_set_list.get_image_set received, in order
    legacy_fields,       \* image_set_list.legacy_fields
    header_cache,        \* the module-level header_cache, keyed by csv_path
    called,              \* the operation that ran last
    arg,                 \* the argument of the helper function applied
    result,              \* what the last operation returned or raised
    csv_directory_choice,   \* setting "File location"
    csv_custom_directory,   \* setting "Custom file location"
    image_directory_choice, \* setting "Base image location"
    image_custom_directory, \* setting "Custom base image location"
    providers,           \* image_set.providers of every image set, by number
    measurements         \* what run added to the measurements of the image set it ran on

directory_settings == <<csv_directory_choice, csv_custom_directory,
                        image_directory_choice, image_custom_directory>>

unit_outputs == <<providers, measurements>>

vars == <<csv_file, wants_rows, row_range, wants_images, in_batch_mode,
          associating_by_key, image_sets, legacy_fields, header_cache,
          called, arg, result, directory_settings, unit_outputs>>

(***************************************************************************)
(* Bounds of the input domains.                                            *)
(***************************************************************************)
MaxNameLen == 5
MaxCellLen == 2
MaxColumnLen == 2
MaxRows == 3
MaxCtime == 3

(***************************************************************************)
(* Module constants.                                                       *)
(***************************************************************************)
IMAGE == "Image"
PATH_NAME == "PathName"
FILE_NAME == "FileName"
PATH_PADDING == 20

\* A directory choice is the sequence of its words.
DIR_DEFAULT_IMAGE == <<"Default", "Input", "Folder">>
DIR_DEFAULT_OUTPUT == <<"Default", "Output", "Folder">>
DIR_NONE == <<"None">>
DIR_OTHER == <<"Elsewhere...">>
DIR_ALL == <<DIR_DEFAULT_IMAGE, DIR_DEFAULT_OUTPUT, DIR_NONE, DIR_OTHER>>

(***************************************************************************)
(* Sequence helpers: str.startswith, slicing s[n:].                        *)
(***************************************************************************)
StartsWith(s, prefix) ==
    /\ Len(prefix) <= Len(s)
    /\ SubSeq(s, 1, Len(prefix)) = prefix

DropFirst(s, n) == SubSeq(s, n + 1, Len(s))

SeqsUpTo(S, n) == UNION {[1..k -> S] : k \in 0..n}

Returned(v) == [ok |-> TRUE, value |-> v]
Raised(e) == [ok |-> FALSE, error |-> e]

(***************************************************************************)
(* Helper functions for the header columns (loaddata.py 134-176).          *)
(***************************************************************************)
header_to_column_any_image(field) ==
    IF StartsWith(field, <<IMAGE, "_">>)
    THEN DropFirst(field, Len(<<IMAGE, "_">>))
    ELSE field

header_to_column(field) ==
    IF \E name \in {PATH_NAME, FILE_NAME} :
           StartsWith(field, <<IMAGE, "_", name, "_">>)
    THEN DropFirst(field, Len(<<IMAGE, "_">>))
    ELSE field

is_path_name_feature(feature) == StartsWith(feature, <<PATH_NAME, "_">>)

is_file_name_feature(feature) == StartsWith(feature, <<FILE_NAME, "_">>)

get_image_name_keep_separator(feature) ==
    IF is_path_name_feature(feature)
    THEN Returned(DropFirst(feature, Len(<<PATH_NAME>>)))
    ELSE IF is_file_name_feature(feature)
    THEN Returned(DropFirst(feature, Len(<<FILE_NAME>>)))
    ELSE Raised("ValueError")

get_image_name(feature) ==
    IF is_path_name_feature(feature)
    THEN Returned(DropFirst(feature, Len(<<PATH_NAME, "_">>)))
    ELSE IF is_file_name_feature(feature)
    THEN Returned(DropFirst(feature, Len(<<FILE_NAME, "_">>)))
    ELSE Raised("ValueError")

make_path_name_feature(image) == <<PATH_NAME, "_">> \o image

make_file_name_feature(image) == <<FILE_NAME, "_">> \o image

(***************************************************************************)
(* Python's int() and float() on a cell.  The cells of the model are made  *)
(* of digits, "." and letters; signs, blanks and exponents are outside     *)
(* the alphabet.  int() takes a non-empty run of digits; float() takes     *)
(* digits with at most one ".", at least one digit.                        *)
(***************************************************************************)
Digits == {"0", "1", "2", "3", "4", "5", "6", "7", "8", "9"}

DigitVal(c) == CHOOSE n \in 0..9 : <<"0", "1", "2", "3", "4", "5", "6", "7", "8", "9">>[n + 1] = c

ParsesAsInt(cell) ==
    /\ Len(cell) > 0
    /\ \A k \in 1..Len(cell) : cell[k] \in Digits

ParsesAsFloat(cell) ==
    /\ \A k \in 1..Len(cell) : cell[k] \in Digits \cup {"."}
    /\ Cardinality({k \in 1..Len(cell) : cell[k] = "."}) <= 1
    /\ \E k \in 1..Len(cell) : cell[k] \in Digits

RECURSIVE DigitsVal(_)
DigitsVal(cell) ==
    IF cell = <<>> THEN 0
    ELSE DigitsVal(SubSeq(cell, 1, Len(cell) - 1)) * 10 + DigitVal(cell[Len(cell)])

\* A float is the pair <<n, d>> standing for n / 10^d, without trailing zeros.
RECURSIVE Normalize(_, _)
Normalize(n, d) ==
    IF d > 0 /\ n % 10 = 0 THEN Normalize(n \div 10, d - 1) ELSE <<n, d>>

int(cell) == [t |-> "int", v |-> DigitsVal(cell)]

float(cell) ==
    LET dots == {k \in 1..Len(cell) : cell[k] = "."}
        dot == IF dots = {} THEN Len(cell) + 1 ELSE CHOOSE k \in dots : TRUE
        digits == SubSeq(cell, 1, dot - 1) \o SubSeq(cell, dot + 1, Len(cell))
        decimals == IF dots = {} THEN 0 ELSE Len(cell) - dot
    IN  [t |-> "float", v |-> Normalize(DigitsVal(digits), decimals)]

str(cell) == [t |-> "str", v |-> cell]

(***************************************************************************)
(* best_cast (loaddata.py 684-699): all cells as integers; if one of them  *)
(* raises ValueError, all cells as floats; if one raises again, the        *)
(* sequence as it is.                                                      *)
(***************************************************************************)
best_cast_per_cell(sequence) ==
    [k \in 1..Len(sequence) |->
        IF ParsesAsInt(sequence[k]) THEN int(sequence[k])
        ELSE IF ParsesAsFloat(sequence[k]) THEN float(sequence[k])
        ELSE str(sequence[k])]

best_cast(sequence) ==
    IF \A k \in 1..Len(sequence) : ParsesAsInt(sequence[k])
    THEN [k \in 1..Len(sequence) |-> int(sequence[k])]
    ELSE IF \A k \in 1..Len(sequence) : ParsesAsFloat(sequence[k])
    THEN [k \in 1..Len(sequence) |-> float(sequence[k])]
    ELSE [k \in 1..Len(sequence) |-> str(sequence[k])]

(***************************************************************************)
(* Values the variables hold when an operation does not involve them.      *)
(***************************************************************************)
NoFile == [exists |-> FALSE, ctime |-> 0, lines |-> <<>>]
NoResult == Returned(<<>>)

\* create_settings: the first choice, the custom directory "."
DefaultDirectories ==
    /\ csv_directory_choice = DIR_ALL[1]
    /\ csv_custom_directory = <<".">>
    /\ image_directory_choice = DIR_ALL[1]
    /\ image_custom_directory = <<".">>

NoOutputs ==
    /\ providers = <<>>
    /\ measurements = <<>>

Idle ==
    /\ DefaultDirectories
    /\ NoOutputs
    /\ csv_file = NoFile
    /\ wants_rows = FALSE
    /\ row_range = [min |-> 1, max |-> 1]
    /\ wants_images = TRUE
    /\ in_batch_mode = FALSE
    /\ associating_by_key = "None"
    /\ image_sets = <<>>
    /\ legacy_fields = <<>>
    /\ header_cache = <<>>

(***************************************************************************)
(* SpecNames: the header helper functions applied to every name of up to   *)
(* MaxNameLen tokens.                                                      *)
(***************************************************************************)
Tokens == {IMAGE, "_", PATH_NAME, FILE_NAME, "Metadata", "X"}

Names == SeqsUpTo(Tokens, MaxNameLen)

InitNames ==
    /\ Idle
    /\ called = "none"
    /\ arg \in Names
    /\ result = NoResult

Call(name, value) ==
    /\ called = "none"
    /\ called' = name
    /\ result' = value
    /\ UNCHANGED <<csv_file, wants_rows, row_range, wants_images, in_batch_mode,
                   associating_by_key, image_sets, legacy_fields, header_cache, arg,
                   directory_settings, unit_outputs>>

HeaderToColumn == Call("header_to_column", Returned(header_to_column(arg)))

FileNameRoundTrip ==
    Call("get_image_name(make_file_name_feature)",
         get_image_name(make_file_name_feature(arg)))

PathNameRoundTrip ==
    Call("get_image_name(make_path_name_feature)",
         get_image_name(make_path_name_feature(arg)))

NextNames == HeaderToColumn \/ FileNameRoundTrip \/ PathNameRoundTrip

SpecNames == InitNames /\ [][NextNames]_vars

\* C7: header_to_column returns a value for every field name, applying it
\* again changes nothing, it removes the leading "Image_" exactly when the
\* field starts with "Image_FileName_" or "Image_PathName_", and every other
\* name comes back unchanged.
C7_HeaderToColumnIdempotent ==
    called = "header_to_column" =>
        LET strips == \/ StartsWith(arg, <<"Image", "_", "FileName", "_">>)
                      \/ StartsWith(arg, <<"Image", "_", "PathName", "_">>)
        IN  /\ result.ok
            /\ header_to_column(result.value) = result.value
            /\ strips => <<"Image", "_">> \o result.value = arg
            /\ ~strips => result.value = arg

C7_Witness ==
    /\ called = "header_to_column"
    /\ arg = <<"Image", "_", "FileName", "_", "X">>
    /\ result.value = <<"FileName", "_", "X">>

\* C8: for every image name x, also one that itself begins with "FileName_"
\* or "PathName_", get_image_name(make_file_name_feature(x)) = x and
\* get_image_name(make_path_name_feature(x)) = x.
C8_ImageNameRoundTrip ==
    called \in {"get_image_name(make_file_name_feature)",
                "get_image_name(make_path_name_feature)"} =>
        /\ result.ok
        /\ result.value = arg

C8_Witness ==
    /\ called = "get_image_name(make_file_name_feature)"
    /\ arg = <<"PathName", "_", "X">>
    /\ result.ok
    /\ result.value = arg

(***************************************************************************)
(* SpecCast: best_cast applied to every column of up to MaxColumnLen cells *)
(* of up to MaxCellLen characters.                                         *)
(***************************************************************************)
CellChars == {"0", "1", ".", "a"}

Cells == SeqsUpTo(CellChars, MaxCellLen)

Columns == SeqsUpTo(Cells, MaxColumnLen)

InitCast ==
    /\ Idle
    /\ called = "none"
    /\ arg \in Columns
    /\ result = NoResult

BestCast == Call("best_cast", Returned(best_cast(arg)))

NextCast == BestCast

SpecCast == InitCast /\ [][NextCast]_vars

\* C5: best_cast returns the whole column as integers if every cell parses
\* as an integer, as floats if some cell does not parse as an integer but
\* every cell parses as a float, and as the unchanged strings otherwise; the
\* result never mixes types.
C5_BestCastPerColumn ==
    called = "best_cast" =>
        LET cast == result.value
            allInt == \A k \in 1..Len(arg) : ParsesAsInt(arg[k])
            allFloat == \A k \in 1..Len(arg) : ParsesAsFloat(arg[k])
        IN  /\ result.ok
            /\ DOMAIN cast = 1..Len(arg)
            /\ allInt => \A k \in 1..Len(arg) :
                   cast[k].t = "int" /\ cast[k].v = DigitsVal(arg[k])
            /\ (~allInt /\ allFloat) => \A k \in 1..Len(arg) :
                   cast[k].t = "float" /\ cast[k] = float(arg[k])
            /\ ~allFloat => \A k \in 1..Len(arg) :
                   cast[k].t = "str" /\ cast[k].v = arg[k]
            /\ \A j, k \in 1..Len(arg) : cast[j].t = cast[k].t

\* One non-numeric cell next to an integer cell: the integer cell stays a string.
C5_Witness ==
    /\ called = "best_cast"
    /\ arg = << <<"1">>, <<"a">> >>
    /\ result.value = << [t |-> "str", v |-> <<"1">>], [t |-> "str", v |-> <<"a">>] >>

(***************************************************************************)
(* prepare_run (loaddata.py 349-451).                                      *)
(*                                                                         *)
(* csv.reader over the file yields its lines as rows of fields; the first  *)
(* is the header.  Errors are records naming the exception type and what   *)
(* the message cites.                                                      *)
(***************************************************************************)
METADATA == "Metadata"

legacy_field_key == "LoadTextMetadata_1"

Put(f, k, v) == [x \in DOMAIN f \cup {k} |-> IF x = k THEN v ELSE f[x]]

RowRangeError(i, row, header) ==
    [type |-> "ValueError", message |-> "Row # has the wrong number of elements",
     number |-> i, found |-> Len(row), expected |-> Len(header)]

LineError(i, row, header) ==
    [type |-> "ValueError", message |-> "Error on line",
     number |-> i + 2, found |-> Len(row), expected |-> Len(header)]

MissingFileNameError(image) ==
    [type |-> "ValueError",
     message |-> "Image_PathName column without a corresponding Image_FileName column",
     image |-> image]

BatchFileError ==
    [type |-> "ValueError", message |-> "Please check that the name matches exactly, including the case"]

\* lines 368-375: the rows from the reader's position on, i counting along
RECURSIVE read_range(_, _, _, _, _)
read_range(rest, i, rows, header, max) ==
    IF rest = <<>> THEN Returned(rows)
    ELSE IF Len(Head(rest)) # Len(header)
    THEN Raised(RowRangeError(i, Head(rest), header))
    ELSE IF i = max - 1
    THEN Returned(Append(rows, Head(rest)))
    ELSE read_range(Tail(rest), i + 1, Append(rows, Head(rest)), header, max)

\* lines 362-366 with i starting at n_to_skip + 1, whatever n_to_skip is
first_i_one_based(n_to_skip) == n_to_skip + 1

\* lines 362-366: i = 0, the skipping loop leaves i = n_to_skip - 1 when it
\* runs at all, then i += 1
first_i(n_to_skip) == IF n_to_skip = 0 THEN 1 ELSE n_to_skip

\* lines 360-378: the rows prepare_run reads from the data lines
read_rows(data, header, range_wanted, range) ==
    IF range_wanted
    THEN LET n_to_skip == range.min - 1
         IN  IF n_to_skip > Len(data)
             THEN Raised([type |-> "StopIteration"])
             ELSE read_range(DropFirst(data, n_to_skip), first_i(n_to_skip),
                             <<>>, header, range.max)
    ELSE Returned(data)

\* lines 382-390: the first row whose length differs from the header's
check_columns(rows, header) ==
    LET bad == {i \in 1..Len(rows) : Len(rows[i]) # Len(header)}
    IN  IF bad = {} THEN Returned(rows)
        ELSE LET i == CHOOSE j \in bad : \A k \in bad : j <= k
             IN  Raised(LineError(i - 1, rows[i], header))

\* lines 397-421: one header field's column into dictionary, metadata, images
arrange_column(tables, name, column, images_wanted) ==
    IF StartsWith(name, <<METADATA, "_">>)
    THEN [tables EXCEPT
            !.dictionary = Put(@, name, best_cast(column)),
            !.metadata = Put(@, DropFirst(name, Len(<<METADATA, "_">>)), best_cast(column))]
    ELSE IF images_wanted /\ (is_file_name_feature(name) \/ is_path_name_feature(name))
    THEN LET image == get_image_name(name).value
             kind == IF is_file_name_feature(name) THEN FILE_NAME ELSE PATH_NAME
             strings == [k \in 1..Len(column) |-> str(column[k])]
             of_image == IF image \in DOMAIN tables.images
                         THEN tables.images[image] ELSE <<>>
         IN  [tables EXCEPT
                !.dictionary = Put(@, name, strings),
                !.images = Put(@, image, Put(of_image, kind, strings))]
    ELSE [tables EXCEPT !.dictionary = Put(@, name, best_cast(column))]

RECURSIVE arrange(_, _, _, _, _)
arrange(tables, header, rows, i, images_wanted) ==
    IF i > Len(header) THEN tables
    ELSE arrange(arrange_column(tables, header[i],
                                [r \in 1..Len(rows) |-> rows[r][i]], images_wanted),
                 header, rows, i + 1, images_wanted)

\* lines 423-426 checking nothing
images_without_file_name_unchecked(images) == {}

\* lines 423-426: the images that have no FileName column
images_without_file_name(images) ==
    {image \in DOMAIN images : FILE_NAME \notin DOMAIN images[image]}

\* lines 430-446 numbering the image sets from 1
registrations_from_one(metadata, n_rows, by_key) ==
    [i \in 1..n_rows |->
        IF DOMAIN metadata # {} /\ by_key # "False"
        THEN [by |-> "key", key |-> [k \in DOMAIN metadata |-> metadata[k][i]]]
        ELSE [by |-> "number", number |-> i]]

\* lines 430-446: the arguments of the get_image_set calls, row after row.
\* The model's values carry no numpy wrapper, so str(md), int(md), float(md)
\* leave them as they are.
registrations(metadata, n_rows, by_key) ==
    [i \in 1..n_rows |->
        IF DOMAIN metadata # {} /\ by_key # "False"
        THEN [by |-> "key", key |-> [k \in DOMAIN metadata |-> metadata[k][i]]]
        ELSE [by |-> "number", number |-> i - 1]]

Failed(error) ==
    {[result |-> Raised(error), image_sets |-> image_sets, legacy_fields |-> legacy_fields]}

\* Every way prepare_run can end outside batch mode (lines 357-451): what
\* it returns or raises, and the image_set_list it leaves.  Which image a
\* dictionary's keys() yields first is not fixed, so the image the error
\* names is any that lacks its FileName column.
load_and_register ==
    IF ~csv_file.exists THEN Failed([type |-> "IOError"])
    ELSE IF csv_file.lines = <<>> THEN Failed([type |-> "StopIteration"])
    ELSE
    LET header == [k \in 1..Len(csv_file.lines[1]) |->
                      header_to_column(csv_file.lines[1][k])]
        read == read_rows(Tail(csv_file.lines), header, wants_rows, row_range)
    IN  IF ~read.ok THEN Failed(read.error)
        ELSE
        LET checked == check_columns(read.value, header)
        IN  IF ~checked.ok THEN Failed(checked.error)
            ELSE
            LET rows == checked.value
                tables == arrange([dictionary |-> <<>>, metadata |-> <<>>, images |-> <<>>],
                                  header, rows, 1, wants_images)
                missing == images_without_file_name(tables.images)
            IN  IF missing # {}
                THEN {[result |-> Raised(MissingFileNameError(image)),
                       image_sets |-> image_sets,
                       legacy_fields |-> legacy_fields] : image \in missing}
                ELSE {[result |-> Returned(TRUE),
                       image_sets |-> image_sets \o
                           registrations(tables.metadata, Len(rows), associating_by_key),
                       legacy_fields |-> Put(legacy_fields, legacy_field_key,
                                             tables.dictionary)]}

\* lines 351-356 left out: the file read in batch mode too
prepare_run_always_loading == load_and_register

\* lines 349-356: in batch mode only the existence of the file is checked
prepare_run ==
    IF in_batch_mode
    THEN IF csv_file.exists
         THEN {[result |-> Returned(TRUE), image_sets |-> image_sets,
                legacy_fields |-> legacy_fields]}
         ELSE Failed(BatchFileError)
    ELSE load_and_register

PrepareRun ==
    /\ called = "none"
    /\ \E outcome \in prepare_run :
          /\ result' = outcome.result
          /\ image_sets' = outcome.image_sets
          /\ legacy_fields' = outcome.legacy_fields
    /\ called' = "prepare_run"
    /\ UNCHANGED <<csv_file, wants_rows, row_range, wants_images, in_batch_mode,
                   associating_by_key, header_cache, arg,
                   directory_settings, unit_outputs>>

(***************************************************************************)
(* Spec: prepare_run on every file and setting of the input domain.  The   *)
(* files have one of the headers below (column names differ within a       *)
(* header) and up to MaxRows data rows; a row has the header's number of   *)
(* fields, one less or one more.  Ranges reach one row past MaxRows.       *)
(***************************************************************************)
Name(prefix, suffix) == prefix \o <<"_", suffix>>

Headers ==
    { << Name(<<METADATA>>, "A") >>,
      << <<"Data">> >>,
      << Name(<<IMAGE, "_", PATH_NAME>>, "X") >>,
      << Name(<<METADATA>>, "A"), Name(<<METADATA>>, "B") >>,
      << Name(<<IMAGE, "_", FILE_NAME>>, "X"), Name(<<IMAGE, "_", PATH_NAME>>, "X") >>,
      << Name(<<IMAGE, "_", PATH_NAME>>, "X"), Name(<<IMAGE, "_", PATH_NAME>>, "Y") >>,
      << Name(<<FILE_NAME>>, "X"), Name(<<IMAGE, "_", PATH_NAME>>, "X") >> }

LoadCells == { <<"1">>, <<"a">> }

RowsFor(header) ==
    [1..Len(header) -> LoadCells]
        \cup {[k \in 1..(Len(header) - 1) |-> <<"1">>], [k \in 1..(Len(header) + 1) |-> <<"1">>]}

Files ==
    {NoFile, [exists |-> TRUE, ctime |-> 1, lines |-> <<>>]}
        \cup {[exists |-> TRUE, ctime |-> 1, lines |-> <<header>> \o rows] :
                  header \in Headers, rows \in {<<>>}}
        \cup UNION {{[exists |-> TRUE, ctime |-> 1, lines |-> <<header>> \o rows] :
                        rows \in UNION {[1..n -> RowsFor(header)] : n \in 1..MaxRows}} :
                   header \in Headers}

Ranges == {[min |-> lo, max |-> hi] : lo \in 1..(MaxRows + 1), hi \in 1..(MaxRows + 1)}

Init ==
    /\ DefaultDirectories
    /\ NoOutputs
    /\ csv_file \in Files
    /\ wants_rows \in BOOLEAN
    /\ row_range \in {r \in Ranges : r.min <= r.max}
    /\ ~wants_rows => row_range = [min |-> 1, max |-> MaxRows + 1]
    /\ wants_images \in BOOLEAN
    /\ in_batch_mode = FALSE
    /\ associating_by_key \in {"None", "True", "False"}
    /\ image_sets = <<>>
    /\ legacy_fields = <<>>
    /\ header_cache = <<>>
    /\ called = "none"
    /\ arg = <<>>
    /\ result = NoResult

Next == PrepareRun

Spec == Init /\ [][Next]_vars

(***************************************************************************)
(* What the claims about prepare_run speak of: the file's data rows, its   *)
(* header with the "Image_" of the image columns removed, the stored       *)
(* column table.                                                           *)
(***************************************************************************)
HasHeader == csv_file.exists /\ csv_file.lines # <<>>

DataRows == Tail(csv_file.lines)

RawHeader == csv_file.lines[1]

ColumnNames ==
    [c \in 1..Len(RawHeader) |->
        IF \/ StartsWith(RawHeader[c], <<"Image", "_", "FileName", "_">>)
           \/ StartsWith(RawHeader[c], <<"Image", "_", "PathName", "_">>)
        THEN Tail(Tail(RawHeader[c])) ELSE RawHeader[c]]

WellFormed(k) == Len(DataRows[k]) = Len(RawHeader)

ColumnTable == legacy_fields["LoadTextMetadata_1"]

NothingRegisteredOrStored == image_sets = <<>> /\ legacy_fields = <<>>

ImageNames == {<<"X">>, <<"Y">>}

HasColumn(name) == \E c \in 1..Len(RawHeader) : ColumnNames[c] = name

PathWithoutFile(image) ==
    /\ HasColumn(<<"PathName", "_">> \o image)
    /\ ~HasColumn(<<"FileName", "_">> \o image)

\* C1: with the row range [min, max], 1 <= min <= max <= n, prepare_run
\* loads exactly the data rows min..max in file order (the column table is
\* the one built from these rows and one unit is registered per row), also
\* when min = 1 and when min = max.
C1_RowRangeLoadsMinToMax ==
    ( /\ called = "prepare_run"
      /\ HasHeader
      /\ wants_rows
      /\ row_range.max <= Len(DataRows)
      /\ \A k \in row_range.min..row_range.max : WellFormed(k)
      /\ wants_images => \A image \in ImageNames : ~PathWithoutFile(image) )
    => /\ result.ok
       /\ Len(image_sets) = row_range.max - row_range.min + 1
       /\ DOMAIN legacy_fields = {"LoadTextMetadata_1"}
       /\ \A c \in 1..Len(RawHeader) :
             /\ ColumnNames[c] \in DOMAIN ColumnTable
             /\ Len(ColumnTable[ColumnNames[c]]) = row_range.max - row_range.min + 1
             /\ \A k \in row_range.min..row_range.max :
                   LET value == ColumnTable[ColumnNames[c]][k - row_range.min + 1]
                       cell == DataRows[k][c]
                   IN  IF value.t = "str" THEN value.v = cell
                       ELSE value.v = DigitsVal(cell)

\* C2: prepare_run registers one unit per loaded row; with a Metadata_
\* column in the file and the unit list not in non-key mode, row i is
\* registered by the key that maps every metadata column's stripped name to
\* that column's value at row i; otherwise by its ordinal, from 0.
C2_OneRegistrationPerRow ==
    (called = "prepare_run" /\ result.ok) =>
        LET n_loaded == Len(ColumnTable[ColumnNames[1]])
            metadata_columns ==
                {c \in 1..Len(RawHeader) : StartsWith(ColumnNames[c], <<"Metadata", "_">>)}
        IN  /\ Len(image_sets) = n_loaded
            /\ ~wants_rows => n_loaded = Len(DataRows)
            /\ \A i \in 1..n_loaded :
                  IF metadata_columns # {} /\ associating_by_key \in {"True", "None"}
                  THEN /\ image_sets[i].by = "key"
                       /\ DOMAIN image_sets[i].key =
                              {Tail(Tail(ColumnNames[c])) : c \in metadata_columns}
                       /\ \A c \in metadata_columns :
                             LET value == image_sets[i].key[Tail(Tail(ColumnNames[c]))]
                             IN  /\ value = ColumnTable[ColumnNames[c]][i]
                                 /\ ~wants_rows =>
                                       IF value.t = "str" THEN value.v = DataRows[i][c]
                                       ELSE value.v = DigitsVal(DataRows[i][c])
                  ELSE /\ image_sets[i].by = "number"
                       /\ image_sets[i].number = i - 1

\* Two rows "1" and "a" under Metadata_A, registered by key.
C2_Witness ==
    /\ called = "prepare_run"
    /\ result.ok
    /\ associating_by_key = "True"
    /\ Len(image_sets) = 2
    /\ image_sets[1].by = "key"
    /\ image_sets[2].by = "key"
    /\ DOMAIN image_sets[1].key = {<<"A">>}
    /\ image_sets[1].key[<<"A">>].v # image_sets[2].key[<<"A">>].v

\* C3: a loaded data row (every row without a range, the rows inside the
\* range with one) whose field count differs from the header's makes
\* prepare_run fail with an error citing that row's 1-based line number and
\* the actual and expected field counts, nothing being registered or stored.
\* The number cited for data row k is accepted as k + 1 (its line in the
\* file, the header being line 1) and as k (its 1-based row number).
C3_WrongFieldCountCitesLine ==
    LET first == IF wants_rows THEN row_range.min ELSE 1
        last == IF wants_rows /\ row_range.max < Len(DataRows)
                THEN row_range.max ELSE Len(DataRows)
        bad == {k \in first..last : ~WellFormed(k)}
    IN  (called = "prepare_run" /\ HasHeader /\ bad # {}) =>
            LET k == CHOOSE j \in bad : \A other \in bad : j <= other
            IN  /\ ~result.ok
                /\ result.error.type = "ValueError"
                /\ "number" \in DOMAIN result.error
                /\ result.error.number \in {k, k + 1}
                /\ result.error.found = Len(DataRows[k])
                /\ result.error.expected = Len(RawHeader)
                /\ NothingRegisteredOrStored

\* C4 as stated: whatever the configuration, a header with an
\* Image_PathName_X column and no Image_FileName_X column makes prepare_run
\* fail with the configuration error naming X, nothing registered or stored.
C4_PathWithoutFileFailsAlways ==
    \A image \in ImageNames :
        ( /\ called = "prepare_run"
          /\ HasHeader
          /\ \E c \in 1..Len(RawHeader) :
                RawHeader[c] = <<"Image", "_", "PathName", "_">> \o image
          /\ ~\E c \in 1..Len(RawHeader) :
                RawHeader[c] = <<"Image", "_", "FileName", "_">> \o image )
        => /\ ~result.ok
           /\ "image" \in DOMAIN result.error
           /\ result.error.image = image
           /\ NothingRegisteredOrStored

\* C4 amended: with image loading enabled, a header that has a PathName_X
\* column and no FileName_X column (names taken after the "Image_" prefix
\* is removed) makes prepare_run fail, nothing registered or stored; unless
\* reading the rows already failed (a wrong field count, a range starting
\* past the end of the file), the error is the configuration error naming
\* an image that has a path-name column and no file-name column.
C4_PathWithoutFileFailsWhenLoadingImages ==
    \A image \in ImageNames :
        ( /\ called = "prepare_run"
          /\ HasHeader
          /\ wants_images
          /\ PathWithoutFile(image) )
        => /\ ~result.ok
           /\ NothingRegisteredOrStored
           /\ ( /\ \A k \in 1..Len(DataRows) : WellFormed(k)
                /\ wants_rows => row_range.min - 1 <= Len(DataRows) )
              => /\ "image" \in DOMAIN result.error
                 /\ PathWithoutFile(result.error.image)

\* The only image without its file-name column is the one the error names.
C4_Witness ==
    /\ called = "prepare_run"
    /\ HasHeader
    /\ wants_images
    /\ RawHeader = << <<"Image", "_", "PathName", "_", "X">> >>
    /\ Len(DataRows) = 2
    /\ ~result.ok
    /\ "image" \in DOMAIN result.error
    /\ result.error.image = <<"X">>
    /\ NothingRegisteredOrStored

(***************************************************************************)
(* The header cache (loaddata.py 123-124, 310-335).  header_cache maps the *)
(* path of the CSV file to an entry, a dictionary with the key "ctime"     *)
(* and, once computed, "header" and "measurement_columns".  The model has  *)
(* one module instance and so one path.  The entry get_cache_info returns  *)
(* is the object stored in header_cache whenever the file's ctime is       *)
(* positive, so what its callers write into it is written into the cache.  *)
(***************************************************************************)
csv_path == "csv_path"

\* lines 313-318 keeping the old entry's contents under the new ctime
get_cache_info_keeping_entry(cache, file) ==
    IF ~file.exists THEN Raised([type |-> "OSError"])
    ELSE LET entry == IF csv_path \in DOMAIN cache THEN cache[csv_path]
                      ELSE Put(<<>>, "ctime", 0)
         IN  IF file.ctime > entry["ctime"]
             THEN Returned(Put(cache, csv_path, Put(entry, "ctime", file.ctime)))
             ELSE Returned(Put(cache, csv_path, entry))

\* lines 310-318: the cache after the call, its entry for csv_path being
\* the entry returned; os.stat raises when there is no file.  A file has a
\* ctime of 1 or more, so a path not yet cached always gets a new entry.
get_cache_info(cache, file) ==
    IF ~file.exists THEN Raised([type |-> "OSError"])
    ELSE LET entry == IF csv_path \in DOMAIN cache THEN cache[csv_path]
                      ELSE Put(<<>>, "ctime", 0)
         IN  IF file.ctime > entry["ctime"]
             THEN Returned(Put(cache, csv_path, Put(<<>>, "ctime", file.ctime)))
             ELSE Returned(Put(cache, csv_path, entry))

\* lines 320-335: [result, cache]
get_header(cache, file) ==
    LET info == get_cache_info(cache, file)
    IN  IF ~info.ok THEN [result |-> info, cache |-> cache]
        ELSE LET entry == info.value[csv_path]
             IN  IF "header" \in DOMAIN entry
                 THEN [result |-> Returned(entry["header"]), cache |-> info.value]
                 ELSE IF file.lines = <<>>
                 THEN [result |-> Raised([type |-> "StopIteration"]), cache |-> info.value]
                 ELSE LET header == [k \in 1..Len(file.lines[1]) |->
                                        header_to_column(file.lines[1][k])]
                      IN  [result |-> Returned(header),
                           cache |-> Put(info.value, csv_path, Put(entry, "header", header))]

\* lines 337-347: [result, cache]
other_providers(group, images_wanted, cache, file) ==
    IF group = "imagegroup" /\ images_wanted
    THEN LET got == get_header(cache, file)
         IN  IF got.result.ok
             THEN LET header == got.result.value
                      fields == SelectSeq(header, is_file_name_feature)
                  IN  [result |-> [k \in 1..Len(fields) |-> get_image_name(fields[k]).value],
                       cache |-> got.cache]
             ELSE [result |-> <<>>, cache |-> got.cache]
    ELSE [result |-> <<>>, cache |-> cache]

(***************************************************************************)
(* get_measurement_columns (loaddata.py 563-609).  A column type is        *)
(* COLTYPE_INTEGER, COLTYPE_FLOAT or COLTYPE_VARCHAR_FORMAT % width.       *)
(***************************************************************************)
COLTYPE_INTEGER == [kind |-> "integer"]
COLTYPE_FLOAT == [kind |-> "float"]
COLTYPE_VARCHAR(width) == [kind |-> "varchar", width |-> width]

\* lines 581-601 for one field: the column's type and recorded length
\* after it.  len_field (lines 581-586, the padded length of a field that
\* starts with PATH_NAME) is computed and never read: lines 598-601 use
\* len(field).
column_step(column, field) ==
    LET after_int ==
            IF column.coltype = COLTYPE_INTEGER /\ ~ParsesAsInt(field)
            THEN COLTYPE_FLOAT ELSE column.coltype
        after_float ==
            IF after_int = COLTYPE_FLOAT /\ ~ParsesAsFloat(field)
            THEN COLTYPE_VARCHAR(Len(field)) ELSE after_int
    IN  IF after_float \in {COLTYPE_INTEGER, COLTYPE_FLOAT}
        THEN [coltype |-> after_float, collen |-> column.collen]
        ELSE IF column.collen < Len(field)
        THEN [coltype |-> COLTYPE_VARCHAR(Len(field)), collen |-> Len(field)]
        ELSE [coltype |-> after_float, collen |-> column.collen]

\* lines 579-601, column `index` over the rows that reach it
RECURSIVE scan_column(_, _, _)
scan_column(column, rows, index) ==
    IF rows = <<>> THEN column
    ELSE scan_column(IF index <= Len(Head(rows))
                     THEN column_step(column, Head(rows)[index]) ELSE column,
                     Tail(rows), index)

\* lines 563-609: [result, cache]
get_measurement_columns(cache, file, images_wanted) ==
    LET info == get_cache_info(cache, file)
    IN  IF ~info.ok THEN [result |-> Returned(<<>>), cache |-> cache]
        ELSE
        LET entry == info.value[csv_path]
        IN  IF "measurement_columns" \in DOMAIN entry
            THEN [result |-> Returned(entry["measurement_columns"]), cache |-> info.value]
            ELSE IF file.lines = <<>>
            THEN [result |-> Returned(<<>>),
                  cache |-> Put(info.value, csv_path, Put(entry, "measurement_columns", <<>>))]
            ELSE
            LET header == [k \in 1..Len(file.lines[1]) |->
                              header_to_column(file.lines[1][k])]
                rows == Tail(file.lines)
            IN  IF \E r \in 1..Len(rows) : Len(rows[r]) > Len(header)
                THEN [result |-> Raised([type |-> "IndexError"]), cache |-> info.value]
                ELSE
                LET coltypes == [index \in 1..Len(header) |->
                                    scan_column([coltype |-> COLTYPE_INTEGER, collen |-> 0],
                                                rows, index).coltype]
                    image_names == other_providers("imagegroup", images_wanted, info.value, file)
                    columns ==
                        [index \in 1..Len(header) |->
                            [object |-> IMAGE, name |-> header[index], coltype |-> coltypes[index]]]
                        \o [k \in 1..Len(image_names.result) |->
                               [object |-> IMAGE,
                                name |-> <<"MD5Digest", "_">> \o image_names.result[k],
                                coltype |-> COLTYPE_VARCHAR(32)]]
                IN  [result |-> Returned(columns),
                     cache |-> Put(image_names.cache, csv_path,
                                   Put(image_names.cache[csv_path],
                                       "measurement_columns", columns))]

GetMeasurementColumns ==
    LET got == get_measurement_columns(header_cache, csv_file, wants_images)
    IN  /\ called' = "get_measurement_columns"
        /\ result' = got.result
        /\ header_cache' = got.cache
        /\ UNCHANGED <<csv_file, wants_rows, row_range, wants_images, in_batch_mode,
                       associating_by_key, image_sets, legacy_fields, arg,
                       directory_settings, unit_outputs>>

GetHeader ==
    LET got == get_header(header_cache, csv_file)
    IN  /\ called' = "get_header"
        /\ result' = got.result
        /\ header_cache' = got.cache
        /\ UNCHANGED <<csv_file, wants_rows, row_range, wants_images, in_batch_mode,
                       associating_by_key, image_sets, legacy_fields, arg,
                       directory_settings, unit_outputs>>

(***************************************************************************)
(* SpecColumns: get_measurement_columns on the files of Spec and on        *)
(* one-column files whose cells run over every string of up to MaxCellLen  *)
(* characters of TypedChars, a row being one cell, no cell or two cells.   *)
(***************************************************************************)
TypedChars == {"1", ".", "a"}

TypedCells == SeqsUpTo(TypedChars, MaxCellLen)

TypedRows == {<<cell>> : cell \in TypedCells} \cup {<<>>, << <<"1">>, <<"1">> >>}

TypedHeaders ==
    { << <<"Data">> >>,
      << Name(<<IMAGE, "_", PATH_NAME>>, "X") >>,
      << Name(<<IMAGE, "_", FILE_NAME>>, "X") >> }

TypedFiles ==
    {[exists |-> TRUE, ctime |-> 1, lines |-> <<header>> \o rows] :
        header \in TypedHeaders, rows \in SeqsUpTo(TypedRows, MaxColumnLen)}

InitColumns ==
    /\ DefaultDirectories
    /\ NoOutputs
    /\ csv_file \in Files \cup TypedFiles
    /\ wants_rows = FALSE
    /\ row_range = [min |-> 1, max |-> 1]
    /\ wants_images \in BOOLEAN
    /\ in_batch_mode = FALSE
    /\ associating_by_key = "None"
    /\ image_sets = <<>>
    /\ legacy_fields = <<>>
    /\ header_cache = <<>>
    /\ called = "none"
    /\ arg = <<>>
    /\ result = NoResult

NextColumns == GetMeasurementColumns

SpecColumns == InitColumns /\ [][NextColumns]_vars

\* C6: for every column, get_measurement_columns declares integer when all
\* its cells parse as integers, float when not all parse as integers but all
\* parse as floats, and otherwise a string as wide as the longest cell of
\* the column, widened by the padding constant for a path-name column.
C6_DeclaredTypeAndWidth ==
    ( /\ called = "get_measurement_columns"
      /\ HasHeader
      /\ \A k \in 1..Len(DataRows) : WellFormed(k) )
    => /\ result.ok
       /\ Len(result.value) >= Len(RawHeader)
       /\ \A c \in 1..Len(RawHeader) :
             LET cells == [k \in 1..Len(DataRows) |-> DataRows[k][c]]
                 longest == CHOOSE n \in 0..(MaxCellLen + 1) :
                               /\ \A k \in 1..Len(cells) : Len(cells[k]) <= n
                               /\ n = 0 \/ \E k \in 1..Len(cells) : Len(cells[k]) = n
                 declared == result.value[c].coltype
             IN  IF \A k \in 1..Len(cells) : ParsesAsInt(cells[k])
                 THEN declared.kind = "integer"
                 ELSE IF \A k \in 1..Len(cells) : ParsesAsFloat(cells[k])
                 THEN declared.kind = "float"
                 ELSE /\ declared.kind = "varchar"
                      /\ IF wants_images /\ StartsWith(ColumnNames[c], <<"PathName", "_">>)
                         THEN declared.width >= longest + PATH_PADDING
                         ELSE declared.width = longest

\* C10: get_measurement_columns never raises, and for a file that cannot be
\* parsed (no file, no header, a data row whose field count differs from
\* the header's) it returns the empty declaration list.
C10_DeclarationsNeverRaise ==
    called = "get_measurement_columns" =>
        /\ result.ok
        /\ ( \/ ~HasHeader
             \/ \E k \in 1..Len(DataRows) : ~WellFormed(k) )
           => result.value = <<>>

(***************************************************************************)
(* SpecCache: get_header and get_measurement_columns interleaved with the  *)
(* file being rewritten and removed.  Every write gives the file a later   *)
(* ctime, up to MaxCtime; csv_file.ctime of a removed file is the ctime it *)
(* had, so that the next write is later.                                   *)
(***************************************************************************)
CacheContents ==
    { <<>>,
      << << Name(<<IMAGE, "_", FILE_NAME>>, "X") >>, << <<"a">> >> >>,
      << << <<"Data">> >>, << <<"1">> >> >>,
      << << <<"Data">> >>, << <<"1">> >>, << <<"1">>, <<"1">> >> >>,
      << << Name(<<METADATA>>, "A"), <<"Data">> >>, << <<"a">>, <<"1">> >> >> }

InitCache ==
    /\ DefaultDirectories
    /\ NoOutputs
    /\ csv_file \in {NoFile} \cup {[exists |-> TRUE, ctime |-> 1, lines |-> lines] :
                                       lines \in CacheContents}
    /\ wants_rows = FALSE
    /\ row_range = [min |-> 1, max |-> 1]
    /\ wants_images \in BOOLEAN
    /\ in_batch_mode = FALSE
    /\ associating_by_key = "None"
    /\ image_sets = <<>>
    /\ legacy_fields = <<>>
    /\ header_cache = <<>>
    /\ called = "none"
    /\ arg = <<>>
    /\ result = NoResult

WriteFile ==
    /\ csv_file.ctime < MaxCtime
    /\ \E lines \in CacheContents :
          csv_file' = [exists |-> TRUE, ctime |-> csv_file.ctime + 1, lines |-> lines]
    /\ called' = "write"
    /\ result' = NoResult
    /\ UNCHANGED <<wants_rows, row_range, wants_images, in_batch_mode,
                   associating_by_key, image_sets, legacy_fields, header_cache, arg,
                   directory_settings, unit_outputs>>

RemoveFile ==
    /\ csv_file.exists
    /\ csv_file' = [exists |-> FALSE, ctime |-> csv_file.ctime, lines |-> <<>>]
    /\ called' = "remove"
    /\ result' = NoResult
    /\ UNCHANGED <<wants_rows, row_range, wants_images, in_batch_mode,
                   associating_by_key, image_sets, legacy_fields, header_cache, arg,
                   directory_settings, unit_outputs>>

NextCache == GetHeader \/ GetMeasurementColumns \/ WriteFile \/ RemoveFile

SpecCache == InitCache /\ [][NextCache]_vars

\* What reading the file as it is now gives, no cache involved.
ParsedHeader ==
    IF ~csv_file.exists THEN Raised([type |-> "OSError"])
    ELSE IF csv_file.lines = <<>> THEN Raised([type |-> "StopIteration"])
    ELSE Returned(ColumnNames)

ParsedColumns == get_measurement_columns(<<>>, csv_file, wants_images).result

CacheIsCurrent ==
    /\ called = "get_header" => result = ParsedHeader
    /\ called = "get_measurement_columns" => result = ParsedColumns
    /\ (csv_path \in DOMAIN header_cache /\ csv_file.exists) =>
          LET entry == header_cache[csv_path]
          IN  /\ entry["ctime"] <= csv_file.ctime
              /\ entry["ctime"] = csv_file.ctime =>
                    /\ "header" \in DOMAIN entry =>
                          ParsedHeader.ok /\ entry["header"] = ParsedHeader.value
                    /\ "measurement_columns" \in DOMAIN entry =>
                          ParsedColumns.ok /\ entry["measurement_columns"] = ParsedColumns.value

CacheStep ==
    csv_path \in DOMAIN header_cache =>
        LET entry == header_cache[csv_path]
        IN  /\ csv_path \in DOMAIN header_cache'
            /\ header_cache'[csv_path]["ctime"] >= entry["ctime"]
            /\ header_cache' # header_cache =>
                  header_cache'[csv_path]["ctime"] = csv_file.ctime
            /\ (csv_file' = csv_file /\ csv_file.exists /\ csv_file.ctime <= entry["ctime"]) =>
                  /\ \A key \in DOMAIN entry :
                        /\ key \in DOMAIN header_cache'[csv_path]
                        /\ header_cache'[csv_path][key] = entry[key]
                  /\ (called' = "get_header" /\ "header" \in DOMAIN entry) =>
                        result' = Returned(entry["header"])
                  /\ (called' = "get_measurement_columns"
                         /\ "measurement_columns" \in DOMAIN entry) =>
                        result' = Returned(entry["measurement_columns"])
            /\ (csv_file' = csv_file /\ csv_file.exists /\ csv_file.ctime > entry["ctime"]
                   /\ called' \in {"get_header", "get_measurement_columns"}
                   /\ <<called, result>>' # <<called, result>>) =>
                  /\ header_cache'[csv_path]["ctime"] = csv_file.ctime
                  /\ result' = IF called' = "get_header" THEN ParsedHeader ELSE ParsedColumns

\* C9: whatever the interleaving of writes with get_header and
\* get_measurement_columns calls, a call made after the file's ctime has
\* passed the cached ctime replaces the cached entry and returns what the
\* file now holds, a call made with the ctime unchanged returns what is
\* cached, what a call returns is what the file holds at the cached ctime,
\* and the cached ctime never decreases.
C9_CacheFollowsTimestamp == []CacheIsCurrent /\ [][CacheStep]_vars

\* A header served from an entry made after the file was rewritten.
C9_Witness ==
    /\ called = "get_header"
    /\ csv_path \in DOMAIN header_cache
    /\ header_cache[csv_path]["ctime"] = 2
    /\ csv_file.ctime = 2
    /\ result.ok
    /\ "measurement_columns" \in DOMAIN header_cache[csv_path]
    /\ result.value = << <<"FileName", "_", "X">> >>

(***************************************************************************)
(* upgrade_settings (loaddata.py 644-680).  A setting value is the         *)
(* sequence of its words, so value.startswith("Default Image") is          *)
(* StartsWith(value, <<"Default", "Image">>).  The four "if" blocks run one *)
(* after the other on the values the previous block left.                  *)
(***************************************************************************)
NO == <<"No">>
YES == <<"Yes">>
module_name_of_self == <<"LoadData">>

from_matlab_2(setting_values) ==
    LET text_file_name == setting_values[1]
        path_name == setting_values[3]
        path_choice == IF path_name = <<".">> THEN DIR_DEFAULT_IMAGE
                       ELSE IF path_name = <<"&">> THEN DIR_DEFAULT_OUTPUT
                       ELSE DIR_OTHER
    IN  <<path_choice, path_name, text_file_name, NO,
          DIR_DEFAULT_IMAGE, <<".">>, NO, <<"1,100000">> >>

rename_directory_choice(setting_values, position) ==
    IF StartsWith(setting_values[position], <<"Default", "Image">>)
    THEN [setting_values EXCEPT ![position] = DIR_DEFAULT_IMAGE]
    ELSE IF StartsWith(setting_values[position], <<"Default", "Output">>)
    THEN [setting_values EXCEPT ![position] = DIR_DEFAULT_OUTPUT]
    ELSE setting_values

\* lines 673-677 left out: only the choice at position 0 renamed
upgrade_settings_one_choice(setting_values, variable_revision_number, module_name, from_matlab) ==
    LET a == IF from_matlab /\ variable_revision_number = 2
             THEN [values |-> from_matlab_2(setting_values), revision |-> 1,
                   from_matlab |-> FALSE]
             ELSE [values |-> setting_values, revision |-> variable_revision_number,
                   from_matlab |-> from_matlab]
        b == IF ~a.from_matlab /\ a.revision = 1
             THEN [a EXCEPT !.values = @ \o <<NO, <<>> >>, !.revision = 2]
             ELSE a
        c == IF b.revision = 2 /\ ~b.from_matlab
             THEN [b EXCEPT !.values = rename_directory_choice(@, 1), !.revision = 3]
             ELSE b
    IN  <<c.values, c.revision, c.from_matlab>>

upgrade_settings(setting_values, variable_revision_number, module_name, from_matlab) ==
    LET a == IF from_matlab /\ variable_revision_number = 2
             THEN [values |-> from_matlab_2(setting_values), revision |-> 1,
                   from_matlab |-> FALSE, module_name |-> module_name_of_self]
             ELSE [values |-> setting_values, revision |-> variable_revision_number,
                   from_matlab |-> from_matlab, module_name |-> module_name]
        b == IF ~a.from_matlab /\ a.revision = 1
             THEN [a EXCEPT !.values = @ \o <<NO, <<>> >>, !.revision = 2]
             ELSE a
        c == IF b.revision = 2 /\ ~b.from_matlab
             THEN [b EXCEPT !.values = rename_directory_choice(
                                           rename_directory_choice(@, 1), 5),
                            !.revision = 3]
             ELSE b
        d == IF c.revision = 3 /\ ~c.from_matlab
             THEN [c EXCEPT !.module_name = module_name_of_self]
             ELSE c
    IN  <<d.values, d.revision, d.from_matlab>>

(***************************************************************************)
(* SpecUpgrade: upgrade_settings applied to settings of every saved shape. *)
(***************************************************************************)
LegacyChoices == {<<"Default", "Image", "Directory">>, <<"Default", "Image", "Folder">>,
                  <<"Default", "Output", "Directory">>, <<"Default", "Output", "Folder">>}

CurrentChoices == {DIR_ALL[k] : k \in 1..Len(DIR_ALL)}

Directories == {<<".">>, <<"&">>, <<"/data">>}

Revision1Settings ==
    {<<choice, <<".">>, <<"data.csv">>, images, base, directory, <<"No">>, <<"1,100000">> >> :
        choice \in LegacyChoices \cup CurrentChoices, images \in {YES, NO},
        base \in LegacyChoices \cup CurrentChoices, directory \in Directories}

Revision2Settings ==
    {settings \o <<groupings, <<"Plate">> >> :
        settings \in Revision1Settings, groupings \in {YES, NO}}

Revision3Settings ==
    {settings \in Revision2Settings :
        settings[1] \in CurrentChoices /\ settings[5] \in CurrentChoices}

MatlabSettings ==
    {<<file, <<"Well">>, directory>> :
        file \in {<<"data.csv">>, <<"Default", "Image", "list.csv">>},
        directory \in Directories}

SavedSettings ==
    {[setting_values |-> settings, variable_revision_number |-> 1, from_matlab |-> FALSE] :
        settings \in Revision1Settings}
    \cup {[setting_values |-> settings, variable_revision_number |-> 2,
           from_matlab |-> FALSE] : settings \in Revision2Settings}
    \cup {[setting_values |-> settings, variable_revision_number |-> 3,
           from_matlab |-> FALSE] : settings \in Revision3Settings}
    \cup {[setting_values |-> settings, variable_revision_number |-> 2,
           from_matlab |-> TRUE] : settings \in MatlabSettings}

InitUpgrade ==
    /\ Idle
    /\ called = "none"
    /\ arg \in SavedSettings
    /\ result = NoResult

UpgradeSettings ==
    Call("upgrade_settings",
         Returned(upgrade_settings(arg.setting_values, arg.variable_revision_number,
                                   <<"LoadText">>, arg.from_matlab)))

NextUpgrade == UpgradeSettings

SpecUpgrade == InitUpgrade /\ [][NextUpgrade]_vars

\* The current name of a directory choice saved under an older name.
CurrentName(choice) ==
    IF choice \in {<<"Default", "Image", "Directory">>, <<"Default", "Image", "Folder">>}
    THEN <<"Default", "Input", "Folder">>
    ELSE IF choice = <<"Default", "Output", "Directory">>
    THEN <<"Default", "Output", "Folder">>
    ELSE choice

\* The ten settings in the order of settings(), for settings saved with the
\* first n of them.
InSettingsOrder(saved, n) ==
    <<CurrentName(saved[1]), saved[2], saved[3], saved[4], CurrentName(saved[5]),
      saved[6], saved[7], saved[8],
      IF n >= 9 THEN saved[9] ELSE <<"No">>,
      IF n >= 10 THEN saved[10] ELSE <<>> >>

\* C11: upgrade_settings applied to settings saved by the legacy system at
\* revision 2 (3 values), natively at revision 1 (8 values) or natively at
\* revision 2 (10 values) returns revision 3, the legacy flag cleared and
\* the 10 settings in the order of settings(), the directory choices at
\* positions 0 and 4 under their current names; settings already at
\* revision 3 come back unchanged.
C11_UpgradeReachesCurrentShape ==
    called = "upgrade_settings" =>
        LET saved == arg.setting_values
            values == result.value[1]
        IN  /\ result.ok
            /\ result.value[2] = 3
            /\ result.value[3] = FALSE
            /\ Len(values) = 10
            /\ values[1] \in CurrentChoices
            /\ values[5] \in CurrentChoices
            /\ (~arg.from_matlab /\ arg.variable_revision_number = 1) =>
                    values = InSettingsOrder(saved, 8)
            /\ (~arg.from_matlab /\ arg.variable_revision_number = 2) =>
                    values = InSettingsOrder(saved, 10)
            /\ (~arg.from_matlab /\ arg.variable_revision_number = 3) =>
                    values = saved
            /\ arg.from_matlab =>
                    /\ values[1] = (IF saved[3] = <<".">> THEN DIR_DEFAULT_IMAGE
                                    ELSE IF saved[3] = <<"&">> THEN DIR_DEFAULT_OUTPUT
                                    ELSE DIR_OTHER)
                    /\ values[2] = saved[3]
                    /\ values[3] = saved[1]
                    /\ values[4] = <<"No">> /\ values[7] = <<"No">> /\ values[9] = <<"No">>
                    /\ values[5] = DIR_DEFAULT_IMAGE
                    /\ values[10] = <<>>

\* Revision 1 settings whose base image location was saved under an old name.
C11_Witness ==
    /\ called = "upgrade_settings"
    /\ ~arg.from_matlab
    /\ arg.variable_revision_number = 1
    /\ arg.setting_values[5] = <<"Default", "Output", "Directory">>
    /\ arg.setting_values[1] = <<"Default", "Image", "Folder">>
    /\ result.value[1][5] = DIR_DEFAULT_OUTPUT
    /\ result.value[1][1] = DIR_DEFAULT_IMAGE
    /\ Len(result.value[1]) = 10

(***************************************************************************)
(* Directories.  A path is the sequence of its components.  cpprefs is not *)
(* part of this file: the default folders are two fixed directories, and   *)
(* get_absolute_path follows the settings' documentation (lines 191-196):  *)
(* a name starting with "." is relative to the default input folder, one   *)
(* starting with "&" to the default output folder.                         *)
(***************************************************************************)
default_image_directory == <<"/in">>
default_output_directory == <<"/out">>

get_absolute_path(path) ==
    IF path # <<>> /\ path[1] = "." THEN default_image_directory \o Tail(path)
    ELSE IF path # <<>> /\ path[1] = "&" THEN default_output_directory \o Tail(path)
    ELSE path

\* lines 285-290: the directory csv_path joins the file name to
csv_directory(choice, custom) ==
    IF choice = DIR_DEFAULT_IMAGE THEN default_image_directory
    ELSE IF choice = DIR_DEFAULT_OUTPUT THEN default_output_directory
    ELSE get_absolute_path(custom)

\* lines 293-303
image_path(choice, custom) ==
    IF choice = DIR_DEFAULT_IMAGE THEN default_image_directory
    ELSE IF choice = DIR_DEFAULT_OUTPUT THEN default_output_directory
    ELSE IF choice = DIR_NONE THEN <<>>
    ELSE get_absolute_path(custom)

\* The caller's translation of a path: to below a mount point, or from the
\* local input root to the remote one.
Translations == {"mount", "remap"}

fn_alter_path(fn, path) ==
    IF fn = "mount" THEN <<"/mnt">> \o path
    ELSE IF path # <<>> /\ path[1] = "/in" THEN <<"/remote", "/in">> \o Tail(path)
    ELSE path

(***************************************************************************)
(* prepare_to_create_batch (loaddata.py 453-488): what it leaves in the    *)
(* legacy fields and in the four directory settings.                       *)
(***************************************************************************)
alter_column(fn, column) ==
    [k \in 1..Len(column) |-> [column[k] EXCEPT !.v = fn_alter_path(fn, @)]]

\* lines 467-471 leaving the path columns as they are
alter_dictionary_keeping_paths(fn, dictionary) == dictionary

\* lines 467-471
alter_dictionary(fn, dictionary) ==
    [key \in DOMAIN dictionary |->
        IF is_path_name_feature(key) THEN alter_column(fn, dictionary[key])
        ELSE dictionary[key]]

prepare_to_create_batch(fn) ==
    LET dictionary == legacy_fields[legacy_field_key]
        by_choice ==
            IF csv_directory_choice = DIR_DEFAULT_IMAGE
            THEN [choice |-> DIR_OTHER, custom |-> default_image_directory]
            ELSE IF csv_directory_choice = DIR_DEFAULT_OUTPUT
            THEN [choice |-> DIR_OTHER, custom |-> default_output_directory]
            ELSE [choice |-> csv_directory_choice,
                  custom |-> get_absolute_path(csv_custom_directory)]
    IN  [result |-> Returned(TRUE),
         legacy_fields |-> [legacy_fields EXCEPT
                               ![legacy_field_key] = alter_dictionary(fn, dictionary)],
         csv_directory_choice |-> by_choice.choice,
         csv_custom_directory |-> fn_alter_path(fn, by_choice.custom),
         image_directory_choice |-> image_directory_choice,
         image_custom_directory |-> fn_alter_path(fn, image_custom_directory)]

\* The pipeline creates the batch after a prepare_run that succeeded; arg
\* keeps the translation and what the call found.
PrepareToCreateBatch ==
    /\ called = "prepare_run"
    /\ result.ok
    /\ ~in_batch_mode
    /\ \E fn \in Translations :
          LET after == prepare_to_create_batch(fn)
          IN  /\ arg' = [fn_alter_path |-> fn,
                         legacy_fields |-> legacy_fields,
                         csv_directory_choice |-> csv_directory_choice,
                         csv_custom_directory |-> csv_custom_directory,
                         image_directory_choice |-> image_directory_choice,
                         image_custom_directory |-> image_custom_directory]
              /\ result' = after.result
              /\ legacy_fields' = after.legacy_fields
              /\ csv_directory_choice' = after.csv_directory_choice
              /\ csv_custom_directory' = after.csv_custom_directory
              /\ image_directory_choice' = after.image_directory_choice
              /\ image_custom_directory' = after.image_custom_directory
    /\ called' = "prepare_to_create_batch"
    /\ UNCHANGED <<csv_file, wants_rows, row_range, wants_images, in_batch_mode,
                   associating_by_key, image_sets, header_cache, unit_outputs>>

(***************************************************************************)
(* SpecBatch: prepare_run, prepare_to_create_batch, then the saved state   *)
(* run again in batch mode, when the file at csv_path is the same, gone,   *)
(* empty, or has a row with too few fields.                                *)
(***************************************************************************)
BatchHeaders ==
    { <<Name(<<IMAGE, "_", FILE_NAME>>, "X"), Name(<<IMAGE, "_", PATH_NAME>>, "X")>>,
      <<Name(<<METADATA>>, "A"), Name(<<IMAGE, "_", FILE_NAME>>, "X"),
        Name(<<IMAGE, "_", PATH_NAME>>, "X")>> }

BatchRows(header) ==
    {[k \in 1..Len(header) |->
         IF is_path_name_feature(header_to_column(header[k])) THEN path
         ELSE IF is_file_name_feature(header_to_column(header[k])) THEN <<"f">>
         ELSE <<"1">>] : path \in {<<"a">>, <<"/in", "a">>}}

BatchFiles ==
    {[exists |-> TRUE, ctime |-> 1, lines |-> <<header, first, second>>] :
        header \in BatchHeaders,
        first \in UNION {BatchRows(h) : h \in BatchHeaders},
        second \in UNION {BatchRows(h) : h \in BatchHeaders}}

WellFormedBatchFiles ==
    {file \in BatchFiles : \A k \in 2..3 : Len(file.lines[k]) = Len(file.lines[1])}

CustomDirectories == {<<".">>, <<"&", "sub">>, <<"/data">>}

InitBatch ==
    /\ csv_file \in WellFormedBatchFiles
    /\ wants_rows = FALSE
    /\ row_range = [min |-> 1, max |-> 1]
    /\ wants_images \in BOOLEAN
    /\ in_batch_mode = FALSE
    /\ associating_by_key = "None"
    /\ image_sets = <<>>
    /\ legacy_fields = <<>>
    /\ header_cache = <<>>
    /\ csv_directory_choice \in CurrentChoices
    /\ csv_custom_directory \in CustomDirectories
    /\ image_directory_choice \in CurrentChoices
    /\ image_custom_directory \in CustomDirectories
    /\ NoOutputs
    /\ called = "none"
    /\ arg = <<>>
    /\ result = NoResult

\* line 351: the pipeline is in batch mode; the file is whatever is now at
\* csv_path.
Resume ==
    /\ called = "prepare_to_create_batch"
    /\ in_batch_mode' = TRUE
    /\ csv_file' \in {csv_file, NoFile, [csv_file EXCEPT !.lines = <<>>],
                      [csv_file EXCEPT !.lines[2] = <<>>]}
    /\ called' = "none"
    /\ UNCHANGED <<wants_rows, row_range, wants_images, associating_by_key, image_sets,
                   legacy_fields, header_cache, arg, result,
                   directory_settings, unit_outputs>>

NextBatch == PrepareRun \/ PrepareToCreateBatch \/ Resume

SpecBatch == InitBatch /\ [][NextBatch]_vars

\* C12: in batch mode prepare_run only checks that the file exists: when it
\* exists the call returns True, when it does not the call raises the
\* "check that the name matches exactly, including the case" error, and in
\* both cases the stored column table and the registered image sets stay as
\* they were, whatever the file now holds.
C12_BatchModeOnlyChecksExistence ==
    [][(in_batch_mode /\ called = "none" /\ called' = "prepare_run") =>
          /\ image_sets' = image_sets
          /\ legacy_fields' = legacy_fields
          /\ csv_file.exists => result' = Returned(TRUE)
          /\ ~csv_file.exists =>
                /\ ~result'.ok
                /\ result'.error.type = "ValueError"
                /\ result'.error.message =
                      "Please check that the name matches exactly, including the case"]_vars

\* A batch-mode prepare_run that succeeded on a file whose first row has
\* lost its fields.
C12_Witness ==
    /\ in_batch_mode
    /\ called = "prepare_run"
    /\ result = Returned(TRUE)
    /\ csv_file.exists
    /\ Len(csv_file.lines) = 3
    /\ csv_file.lines[2] = <<>>
    /\ legacy_field_key \in DOMAIN legacy_fields
    /\ Len(image_sets) > 0

\* A location that depends on a default folder: chosen as one, or a custom
\* directory whose name starts with "." or "&".
GivenRelativeToDefault(choice, custom) ==
    \/ choice \in {DIR_DEFAULT_IMAGE, DIR_DEFAULT_OUTPUT}
    \/ choice # DIR_NONE /\ custom # <<>> /\ custom[1] \in {".", "&"}

\* What prepare_to_create_batch left of the stored columns: the path-name
\* columns translated value by value, the others as they were.
ColumnsTranslated ==
    LET before == arg.legacy_fields[legacy_field_key]
        after == legacy_fields[legacy_field_key]
    IN  /\ DOMAIN after = DOMAIN before
        /\ \A key \in DOMAIN before :
              IF is_path_name_feature(key)
              THEN /\ Len(after[key]) = Len(before[key])
                   /\ \A k \in 1..Len(before[key]) :
                         after[key][k].v = fn_alter_path(arg.fn_alter_path, before[key][k].v)
              ELSE after[key] = before[key]

CsvLocationTranslated ==
    GivenRelativeToDefault(arg.csv_directory_choice, arg.csv_custom_directory) =>
        /\ ~GivenRelativeToDefault(csv_directory_choice, csv_custom_directory)
        /\ csv_directory(csv_directory_choice, csv_custom_directory) =
              fn_alter_path(arg.fn_alter_path,
                            csv_directory(arg.csv_directory_choice, arg.csv_custom_directory))

ImageLocationTranslated ==
    GivenRelativeToDefault(arg.image_directory_choice, arg.image_custom_directory) =>
        /\ ~GivenRelativeToDefault(image_directory_choice, image_custom_directory)
        /\ image_path(image_directory_choice, image_custom_directory) =
              fn_alter_path(arg.fn_alter_path,
                            image_path(arg.image_directory_choice, arg.image_custom_directory))

\* C13: after prepare_to_create_batch with translation fn, every value of
\* every stored path-name column is fn of its previous value, every other
\* stored column is unchanged, and each of the two configured locations
\* (of the CSV file, of the images) that was given relative to a default
\* folder is now fn of the absolute directory it stood for and no longer
\* depends on a default folder.
C13_BatchPathsTranslated ==
    called = "prepare_to_create_batch" =>
        /\ ColumnsTranslated
        /\ CsvLocationTranslated
        /\ ImageLocationTranslated

(***************************************************************************)
(* The image set list.  ImageSetList is not part of this file: its         *)
(* get_image_set gives the image set at a number, or the one registered    *)
(* with the same key, and makes a new one at the end of the list when      *)
(* there is none.  An image set registered by number has the one key       *)
(* "number".  image_sets holds the calls; image_set_list is what they      *)
(* leave.                                                                  *)
(***************************************************************************)
NoImageSet == [number |-> -1, keys |-> <<>>]

\* Two keys name the same image set: the same names with the same values
same_keys(a, b) ==
    /\ DOMAIN a = DOMAIN b
    /\ \A name \in DOMAIN a : a[name].t = b[name].t /\ a[name].v = b[name].v

get_image_set(sets, keys_or_number) ==
    LET by_number == keys_or_number.by = "number"
        keys == IF by_number
                THEN Put(<<>>, <<"number">>, [t |-> "int", v |-> keys_or_number.number])
                ELSE keys_or_number.key
        same == {k \in 1..Len(sets) : sets[k].number >= 0 /\ same_keys(sets[k].keys, keys)}
        number == IF by_number THEN keys_or_number.number
                  ELSE IF same # {} THEN sets[CHOOSE k \in same : TRUE].number
                  ELSE Len(sets)
        padded == IF number >= Len(sets)
                  THEN sets \o [k \in 1..(number - Len(sets) + 1) |-> NoImageSet]
                  ELSE sets
    IN  IF padded[number + 1].number < 0
        THEN [padded EXCEPT ![number + 1] = [number |-> number, keys |-> keys]]
        ELSE padded

RECURSIVE image_set_list(_)
image_set_list(calls) ==
    IF calls = <<>> THEN <<>>
    ELSE get_image_set(image_set_list(SubSeq(calls, 1, Len(calls) - 1)), calls[Len(calls)])

\* os.path.join: an absolute second path stands alone
Roots == {"/in", "/out", "/data", "/mnt", "/remote"}

os_path_join(a, b) == IF b # <<>> /\ b[1] \in Roots THEN b ELSE a \o b

\* The number of rows of the stored column table: len(dictionary.values()[0])
n_rows(dictionary) == Len(dictionary[CHOOSE key \in DOMAIN dictionary : TRUE])

(***************************************************************************)
(* prepare_group (loaddata.py 490-509) for the image sets image_numbers =  *)
(* 1..n_sets: [result, providers, cache].  The row it reads is the image   *)
(* set's number; a number past the last row raises IndexError at line 506  *)
(* (or 500), after the image sets before it have got their providers.      *)
(***************************************************************************)
provider(dictionary, path_base, index, image_name) ==
    LET path_name_feature == make_path_name_feature(image_name)
        path == IF path_name_feature \in DOMAIN dictionary
                THEN IF image_directory_choice # DIR_NONE
                     THEN os_path_join(path_base, dictionary[path_name_feature][index + 1].v)
                     ELSE dictionary[path_name_feature][index + 1].v
                ELSE path_base
        filename == dictionary[make_file_name_feature(image_name)][index + 1].v
    IN  [name |-> image_name, pathname |-> path, filename |-> filename]

prepare_group(n_sets) ==
    LET dictionary == legacy_fields[legacy_field_key]
        path_base == image_path(image_directory_choice, image_custom_directory)
        image_names == other_providers("imagegroup", wants_images, header_cache, csv_file)
        names == IF wants_images THEN image_names.result ELSE <<>>
        past == IF names = <<>> THEN {}
                ELSE {image_number \in 1..n_sets : image_number > n_rows(dictionary)}
    IN  [result |-> IF past = {} THEN Returned(<<>>) ELSE Raised([type |-> "IndexError"]),
         providers |->
            [image_number \in 1..n_sets |->
                IF \E other \in past : other <= image_number THEN <<>>
                ELSE [k \in 1..Len(names) |->
                         provider(dictionary, path_base, image_number - 1, names[k])]],
         cache |-> image_names.cache]

PrepareGroup ==
    /\ called = "prepare_run"
    /\ result.ok
    /\ LET done == prepare_group(Len(image_set_list(image_sets)))
       IN  /\ result' = done.result
           /\ providers' = done.providers
           /\ header_cache' = done.cache
    /\ called' = "prepare_group"
    /\ UNCHANGED <<csv_file, wants_rows, row_range, wants_images, in_batch_mode,
                   associating_by_key, image_sets, legacy_fields, arg,
                   directory_settings, measurements>>

(***************************************************************************)
(* run (loaddata.py 511-547) on an image set: every way it can end, as     *)
(* [result, measurements, cache].  measurements maps a feature name to the *)
(* value added under it.                                                   *)
(***************************************************************************)
\* Python's == on two stored values: an int equals the float of its value
py_equal(a, b) ==
    IF a.t = b.t THEN a.v = b.v
    ELSE IF a.t = "int" /\ b.t = "float" THEN b.v = <<a.v, 0>>
    ELSE IF a.t = "float" /\ b.t = "int" THEN a.v = <<b.v, 0>>
    ELSE FALSE

md_key(key) == <<METADATA, "_">> \o key

\* lines 517-518: the image set has more keys than the number alone
has_metadata_keys(keys) ==
    Cardinality(DOMAIN keys) > 1 \/ DOMAIN keys # {<<"number">>}

\* The rows (from 1) all of whose metadata columns equal the image set's keys;
\* missing is the keys the table has no column for.
matching_rows(dictionary, keys) ==
    {row \in 1..n_rows(dictionary) :
        \A key \in DOMAIN keys :
            md_key(key) \in DOMAIN dictionary =>
                py_equal(dictionary[md_key(key)][row], keys[key])}

\* lines 519-530: the values index (from 0) can have after the scan, or the
\* error.  The loop leaves index at the last row when no row matches, and
\* unbound when there is no row.  A key without a column raises KeyError
\* when the scan reaches it, which depends on the order of keys().
row_index(dictionary, image_set, image_set_number) ==
    LET keys == image_set.keys
        missing == {key \in DOMAIN keys : md_key(key) \notin DOMAIN dictionary}
        matching == matching_rows(dictionary, keys)
    IN  IF ~has_metadata_keys(keys) THEN {Returned(image_set_number - 1)}
        ELSE IF n_rows(dictionary) = 0 THEN {Raised([type |-> "UnboundLocalError"])}
        ELSE (IF missing # {} THEN {Raised([type |-> "KeyError"])} ELSE {})
             \cup (IF matching = {} THEN {Returned(n_rows(dictionary) - 1)}
                   ELSE IF missing = {}
                   THEN {Returned((CHOOSE row \in matching :
                                      \A other \in matching : row <= other) - 1)}
                   ELSE {})

md5_hexdigest == [t |-> "str", v |-> <<"hexdigest">>]

run(image_set_number) ==
    LET dictionary == legacy_fields[legacy_field_key]
        image_set == image_set_list(image_sets)[image_set_number]
        image_names == other_providers("imagegroup", wants_images, header_cache, csv_file)
        provided == IF image_set_number \in DOMAIN providers
                    THEN {providers[image_set_number][k].name :
                             k \in 1..Len(providers[image_set_number])}
                    ELSE {}
        names == {image_names.result[k] : k \in 1..Len(image_names.result)}
    IN  {IF ~found.ok
         THEN [result |-> found, measurements |-> <<>>, cache |-> header_cache]
         ELSE IF found.value + 1 > n_rows(dictionary)
         THEN [result |-> Raised([type |-> "IndexError"]), measurements |-> <<>>,
               cache |-> header_cache]
         ELSE LET features == [feature_name \in DOMAIN dictionary |->
                                  dictionary[feature_name][found.value + 1]]
                  digests == [feature_name \in
                                 {<<"MD5Digest", "_">> \o name : name \in names \cap provided}
                                 |-> md5_hexdigest]
              IN  [result |-> IF names \subseteq provided THEN Returned(<<>>)
                              ELSE Raised([type |-> "ValueError"]),
                   measurements |->
                      [feature_name \in DOMAIN features \cup DOMAIN digests |->
                          IF feature_name \in DOMAIN features THEN features[feature_name]
                          ELSE digests[feature_name]],
                   cache |-> image_names.cache]
         : found \in row_index(dictionary, image_set, image_set_number)}

\* The pipeline runs the module on an image set of the list after
\* prepare_group; arg keeps the image set's number.
Run ==
    /\ called = "prepare_group"
    /\ result.ok
    /\ \E image_set_number \in 1..Len(image_set_list(image_sets)) :
          /\ image_set_list(image_sets)[image_set_number].number >= 0
          /\ arg' = [image_set_number |-> image_set_number]
          /\ \E outcome \in run(image_set_number) :
                /\ result' = outcome.result
                /\ measurements' = outcome.measurements
                /\ header_cache' = outcome.cache
    /\ called' = "run"
    /\ UNCHANGED <<csv_file, wants_rows, row_range, wants_images, in_batch_mode,
                   associating_by_key, image_sets, legacy_fields,
                   directory_settings, providers>>

(***************************************************************************)
(* SpecRun: prepare_run, prepare_group for all image sets, then run on one *)
(* of them.  The files have up to three rows; in some the third row has a  *)
(* field too many.  An earlier module of the pipeline may have registered  *)
(* an image set under the metadata key A.                                  *)
(***************************************************************************)
RunHeaders ==
    { <<Name(<<METADATA>>, "A"), Name(<<IMAGE, "_", FILE_NAME>>, "X")>>,
      <<Name(<<METADATA>>, "A"), Name(<<IMAGE, "_", FILE_NAME>>, "X"),
        Name(<<IMAGE, "_", PATH_NAME>>, "X")>>,
      <<Name(<<METADATA>>, "A"), Name(<<METADATA>>, "B"), <<"Data">> >>,
      <<Name(<<IMAGE, "_", FILE_NAME>>, "X"), <<"Data">> >> }

RunCells(field) ==
    IF StartsWith(field, <<METADATA, "_">>) THEN {<<"1">>, <<"a">>}
    ELSE IF is_file_name_feature(header_to_column(field)) THEN {<<"f">>, <<"g">>}
    ELSE IF is_path_name_feature(header_to_column(field)) THEN {<<"a">>}
    ELSE {<<"1">>}

RunRows(header) ==
    {row \in [1..Len(header) -> {<<"1">>, <<"a">>, <<"f">>, <<"g">>}] :
        \A k \in 1..Len(header) : row[k] \in RunCells(header[k])}

RunFiles ==
    UNION {{[exists |-> TRUE, ctime |-> 1, lines |-> <<header>> \o rows] :
               rows \in UNION {[1..n -> RunRows(header)] : n \in 0..3}}
           \cup {[exists |-> TRUE, ctime |-> 1,
                  lines |-> <<header>> \o [rows EXCEPT ![3] = @ \o << <<"1">> >>]] :
                    rows \in [1..3 -> RunRows(header)]} :
           header \in RunHeaders}

EarlierImageSets ==
    {<<>>, <<[by |-> "key", key |-> Put(<<>>, <<"A">>, str(<<"b">>))]>>}

InitRun ==
    /\ DefaultDirectories
    /\ NoOutputs
    /\ csv_file \in RunFiles
    /\ wants_rows \in BOOLEAN
    /\ row_range \in {[min |-> 1, max |-> 2], [min |-> 2, max |-> 3]}
    /\ ~wants_rows => row_range = [min |-> 1, max |-> 2]
    /\ wants_images \in BOOLEAN
    /\ in_batch_mode = FALSE
    /\ image_sets \in EarlierImageSets
    /\ associating_by_key \in {"None", "True", "False"}
    /\ image_sets # <<>> => associating_by_key = "True"
    /\ legacy_fields = <<>>
    /\ header_cache = <<>>
    /\ called = "none"
    /\ arg = <<>>
    /\ result = NoResult

NextRun == PrepareRun \/ PrepareGroup \/ Run

SpecRun == InitRun /\ [][NextRun]_vars

\* The image set run was called on, and the stored column table.
RunImageSet == image_set_list(image_sets)[arg.image_set_number]

Dictionary == legacy_fields[legacy_field_key]

\* Row (from 1) of the table has the image set's value in every metadata column.
RowHasKeys(row, keys) ==
    \A key \in DOMAIN keys :
        /\ md_key(key) \in DOMAIN Dictionary
        /\ py_equal(Dictionary[md_key(key)][row], keys[key])

\* The results run published under the table's column names are the values of row.
PublishedRow(row) ==
    /\ row \in 1..n_rows(Dictionary)
    /\ \A name \in DOMAIN Dictionary :
          name \in DOMAIN measurements /\ measurements[name] = Dictionary[name][row]

\* C14: when run publishes results for an image set that has more keys
\* than its number, the published row is the first row of the column table
\* whose metadata values all equal the image set's key values, so no
\* published row has a metadata value that differs from the key, also when
\* no row matches; for an image set known by its number alone the
\* published row is the one at image set number minus 1.
C14_RunPublishesFirstMatchingRow ==
    (called = "run" /\ measurements # <<>>) =>
        IF has_metadata_keys(RunImageSet.keys)
        THEN \E row \in 1..n_rows(Dictionary) :
                /\ PublishedRow(row)
                /\ RowHasKeys(row, RunImageSet.keys)
                /\ \A earlier \in 1..(row - 1) : ~RowHasKeys(earlier, RunImageSet.keys)
        ELSE PublishedRow((arg.image_set_number - 1) + 1)

\* The rows (from 1) the image set run was called on resolves to: the first
\* row that has its keys, or the row at its number.
ResolvedRows ==
    IF has_metadata_keys(RunImageSet.keys)
    THEN {row \in 1..n_rows(Dictionary) :
             /\ RowHasKeys(row, RunImageSet.keys)
             /\ \A earlier \in 1..(row - 1) : ~RowHasKeys(earlier, RunImageSet.keys)}
    ELSE {arg.image_set_number} \cap 1..n_rows(Dictionary)

\* The names get_measurement_columns declares for the file and the settings.
DeclaredNames ==
    LET declared == get_measurement_columns(header_cache, csv_file, wants_images).result
    IN  IF declared.ok
        THEN {declared.value[k].name : k \in 1..Len(declared.value)}
        ELSE {}

\* C15: after a successful prepare_run, a run on an image set publishes
\* exactly one result per header field of the file, under the normalized
\* field name and with that column's value at the row the image set
\* resolves to, and one checksum result per image group; every name it
\* publishes is a name get_measurement_columns declares for the same file
\* and settings.
C15_RunPublishesDeclaredResults ==
    (called = "run" /\ result.ok) =>
        LET fields == {header_to_column(csv_file.lines[1][k]) :
                          k \in 1..Len(csv_file.lines[1])}
            groups == other_providers("imagegroup", wants_images, header_cache, csv_file).result
            digests == {<<"MD5Digest", "_">> \o groups[k] : k \in 1..Len(groups)}
        IN  /\ DOMAIN measurements = fields \cup digests
            /\ \E row \in ResolvedRows :
                  \A name \in fields : measurements[name] = Dictionary[name][row]
            /\ \A name \in digests : measurements[name].t = "str"
            /\ DOMAIN measurements \subseteq DeclaredNames

\* C16: after a successful prepare_run, by key or by number, with or
\* without rows that repeat a metadata key combination, the file name and
\* the path name prepare_group gave the image providers of an image set
\* are those of the row whose values run publishes for that image set.
C16_GroupAndRunUseSameRow ==
    (called = "run" /\ result.ok /\ wants_images) =>
        LET given == providers[arg.image_set_number]
            path_base == image_path(image_directory_choice, image_custom_directory)
        IN  \A k \in 1..Len(given) :
                /\ given[k].filename = measurements[make_file_name_feature(given[k].name)].v
                /\ make_path_name_feature(given[k].name) \in DOMAIN measurements =>
                      given[k].pathname =
                          os_path_join(path_base,
                                       measurements[make_path_name_feature(given[k].name)].v)

\* The kind of column type that holds a stored value.
KindOfValue(value) ==
    IF value.t = "int" THEN "integer"
    ELSE IF value.t = "float" THEN "float"
    ELSE "varchar"

\* C17: for every file and every setting (image loading on or off, row
\* range or none), a column get_measurement_columns declares as integer,
\* float or string holds, in the table prepare_run stores and run publishes
\* from, values of that kind only.
C17_DeclaredKindIsStoredKind ==
    (called = "prepare_run" /\ result.ok) =>
        LET declared == get_measurement_columns(header_cache, csv_file, wants_images).result
        IN  declared.ok =>
                \A k \in 1..Len(declared.value) :
                    declared.value[k].name \in DOMAIN ColumnTable =>
                        \A row \in 1..Len(ColumnTable[declared.value[k].name]) :
                            KindOfValue(ColumnTable[declared.value[k].name][row]) =
                                declared.value[k].coltype.kind

====
